---- MODULE Spec2Model ----
(***************************************************************************)
(* State-machine model of IoT::CAN::SocketCAN::CANEndpointImpl             *)
(* (protocols/CAN/SocketCAN/src/CANEndpointImpl.cpp).                      *)
(*                                                                         *)
(* Caller threads invoke the public operations of one endpoint; the reader *)
(* worker executes run(); the owner runs the destructor once no call is in *)
(* progress.  Every operation that takes Poco::FastMutex is split at its   *)
(* blocking points: acquiring the mutex, the body executed under it, a     *)
(* Thread::join, and the release of the scoped lock on the way out.        *)
(***************************************************************************)
EXTENDS Integers, Sequences, FiniteSets, TLC

\* ------------------------------------------------------------- bounds ----
\* Cap on either enable counter (calls that would exceed it are not issued).
MaxCount == 2
\* Longest list handed to setFilter.
MaxFilters == 2
\* Cap on the buffers received plus the exceptions logged by the reader thread.
MaxFrames == 2

\* ---------------------------------------------------------- constants ----
\* <linux/can.h>: CAN_INV_FILTER, the "invert match" bit of can_filter.can_id.
CAN_INV_FILTER == 536870912
\* Width of canid_t.
IdBits == 32

\* Caller threads sharing the endpoint.
Threads == {"t1", "t2"}
Mutator == "t1"
Observer == "t2"
\* The mutex is free.
Free == "free"
\* Mutex owners other than caller threads.
Worker == "worker"
Owner == "owner"

\* Values an int data member that no constructor initialises may hold.
UninitValues == {-1, 0, 1}

\* Filters used as arguments: two that are equal by (id, mask) and differ in
\* invert, and one whose identifier already carries the inversion bit.
Filters ==
    { [id |-> 1, mask |-> 2047, invert |-> FALSE],
      [id |-> 1, mask |-> 2047, invert |-> TRUE],
      [id |-> CAN_INV_FILTER + 2, mask |-> 2047, invert |-> TRUE] }

RECURSIVE SeqsUpTo(_, _)
SeqsUpTo(S, n) ==
    IF n = 0 THEN {<<>>}
    ELSE LET shorter == SeqsUpTo(S, n - 1)
         IN  shorter \cup {Append(s, x) : s \in {q \in shorter : Len(q) = n - 1}, x \in S}

\* Argument lists of setFilter.
FilterLists == SeqsUpTo(Filters, MaxFilters)

VARIABLES
    _mutex,           \* Poco::FastMutex _mutex: Free or its holder
    _enableEvents,    \* int _enableEvents (classicEnableCount)
    _enableFDEvents,  \* int _enableFDEvents (fdEnableCount)
    _filter,          \* std::vector<Filter> _filter
    _thread,          \* Poco::Thread _thread running run(): position of the worker
    kernelFilter,     \* socket option CAN_RAW_FILTER as installed in the kernel
    fdFrames,         \* socket option CAN_RAW_FD_FRAMES (0 or 1)
    pc,               \* position of each caller thread
    local,            \* per caller thread: the call in progress and its result
    dtor,             \* position of ~CANEndpointImpl
    fold,             \* history: fold of the enableEvents calls that took effect
    _filterMode,      \* CANEndpoint::FilterMode _filterMode
    joinFilters,      \* socket option CAN_RAW_JOIN_FILTERS (0 or 1)
    delivered,        \* buffers _socket.receiveBytes has returned to run(), in order
    notified,         \* frameReceived / sdFrameReceived notifications fired, in order
    logged,           \* number of _logger.log(exc) calls made by run()
    txFrame,          \* the frame handed to the sendFrame / sendFDFrame call in progress
    txWire,           \* buffers that call has written to the socket
    txRet             \* outcome of that call

\* State of setFilterMode / getFilterMode, of the receive path, of the send path.
modeVars == <<_filterMode, joinFilters>>
rxVars == <<delivered, notified, logged>>
txVars == <<txFrame, txWire, txRet>>

vars == <<_mutex, _enableEvents, _enableFDEvents, _filter, _thread,
          kernelFilter, fdFrames, pc, local, dtor, fold, modeVars, rxVars, txVars>>

\* ------------------------------------------------------------ helpers ----
\* No send call is in progress.
NoFrame == [kind |-> "none"]

NoCall == [op |-> "none", enable |-> FALSE, arg |-> <<>>, ret |-> "none", out |-> <<>>]

\* The worker thread exists and has not yet returned from run().
Running == {"check", "locked", "poll"}
ReaderRunning == _thread \in Running


\* x | y on canid_t, bit by bit.
RECURSIVE BitOrN(_, _, _)
BitOrN(x, y, n) ==
    IF n = 0 THEN 0
    ELSE (IF x % 2 = 1 \/ y % 2 = 1 THEN 1 ELSE 0) + 2 * BitOrN(x \div 2, y \div 2, n - 1)
BitOr(x, y) == BitOrN(x, y, IdBits)

\* Variant: the comparison also looks at invert.
FilterEqWithInvert(f1, f2) == f1.id = f2.id /\ f1.mask = f2.mask /\ f1.invert = f2.invert

\* operator == (const Filter&, const Filter&): invert takes no part.
FilterEq(f1, f2) == f1.id = f2.id /\ f1.mask = f2.mask

\* Variant: the loop stops at the last equal element.
FindLastFilter(list, f) ==
    IF \E i \in 1..Len(list) : FilterEq(f, list[i])
    THEN CHOOSE i \in 1..Len(list) :
            FilterEq(f, list[i]) /\ \A j \in (i + 1)..Len(list) : ~FilterEq(f, list[j])
    ELSE 0

\* Index of the first element the loops of addFilter/removeFilter stop at, 0 if none.
FindFilter(list, f) ==
    IF \E i \in 1..Len(list) : FilterEq(f, list[i])
    THEN CHOOSE i \in 1..Len(list) :
            FilterEq(f, list[i]) /\ \A j \in 1..(i - 1) : ~FilterEq(f, list[j])
    ELSE 0

\* std::vector::erase(it) at index i.
Erase(list, i) == [j \in 1..(Len(list) - 1) |-> IF j < i THEN list[j] ELSE list[j + 1]]

\* Variant: the inversion bit is added instead of or-ed in.
applyFilterAdding(list) ==
    [i \in 1..Len(list) |->
        [can_id   |-> IF list[i].invert THEN list[i].id + CAN_INV_FILTER ELSE list[i].id,
         can_mask |-> list[i].mask]]

\* The can_filter array applyFilter builds from a filter list.
applyFilter(list) ==
    [i \in 1..Len(list) |->
        [can_id   |-> IF list[i].invert THEN BitOr(list[i].id, CAN_INV_FILTER) ELSE list[i].id,
         can_mask |-> list[i].mask]]

\* Variant: the decrement is not guarded by `_enableEvents > 0`.
CountAfterUnguarded(c, enable) == IF enable THEN c + 1 ELSE c - 1

\* Effect of `!_enableEvents++` / `--_enableEvents` on the counter.
CountAfter(c, enable) ==
    IF enable THEN c + 1
    ELSE IF c > 0 THEN c - 1 ELSE c

\* Calls of operation op with argument enable = TRUE that were issued and have
\* not yet executed their body.
PendingEnables(op) ==
    Cardinality({t \in Threads : pc[t] \in {"lock", "body"} /\ local[t].op = op /\ local[t].enable})

\* --------------------------------------------------------------- Init ----
\* State after CANEndpointImpl::CANEndpointImpl: _filterMode(CAN_FILTER_MODE_OR),
\* _enableEvents(0), an empty filter vector, a not yet started thread, a fresh
\* socket (no filter joined, FD frames off); _enableFDEvents has no initialiser.
Init ==
    /\ _mutex = Free
    /\ _enableEvents = 0
    /\ _enableFDEvents \in UninitValues
    /\ _filter = <<>>
    /\ _thread = "none"
    /\ kernelFilter = <<>>
    /\ fdFrames = 0
    /\ pc = [t \in Threads |-> "idle"]
    /\ local = [t \in Threads |-> NoCall]
    /\ dtor = "alive"
    /\ fold = 0
    /\ _filterMode = "OR"
    /\ joinFilters = 0
    /\ delivered = <<>>
    /\ notified = <<>>
    /\ logged = 0
    /\ txFrame = NoFrame
    /\ txWire = <<>>
    /\ txRet = "none"

\* ------------------------------------------------------ caller threads ----
EventOps == {"enableEvents", "eventsEnabled"}
FDOps == {"enableFDEvents", "fdEventsEnabled"}
FilterOps == {"setFilter", "getFilter", "addFilter", "removeFilter"}

\* A caller thread enters a public operation of the live endpoint.
Call(t, ops) ==
    /\ dtor = "alive"
    /\ pc[t] = "idle"
    /\ \E op \in ops, enable \in BOOLEAN :
          /\ op \notin {"enableEvents", "enableFDEvents"} => ~enable
          /\ (op = "enableEvents" /\ enable) =>
                _enableEvents + PendingEnables(op) < MaxCount
          /\ (op = "enableFDEvents" /\ enable) =>
                _enableFDEvents + PendingEnables(op) < MaxCount
          /\ local' = [local EXCEPT ![t] = [NoCall EXCEPT !.op = op, !.enable = enable]]
    /\ pc' = [pc EXCEPT ![t] = "lock"]
    /\ UNCHANGED <<_mutex, _enableEvents, _enableFDEvents, _filter, _thread,
                   kernelFilter, fdFrames, dtor, fold>>
    /\ UNCHANGED <<modeVars, rxVars, txVars>>

\* In local[t]: op and enable name the call; arg is the filter argument (the
\* list of setFilter, the one filter of addFilter/removeFilter), read when the
\* body runs; ret is the outcome ("void", "true", "false" or the exception);
\* out is the list getFilter returns.

\* Poco::FastMutex::ScopedLock lock(_mutex): blocks until the mutex is free.
Lock(t) ==
    /\ pc[t] = "lock"
    /\ _mutex = Free
    /\ _mutex' = t
    /\ pc' = [pc EXCEPT ![t] = "body"]
    /\ UNCHANGED <<_enableEvents, _enableFDEvents, _filter, _thread,
                   kernelFilter, fdFrames, local, dtor, fold>>
    /\ UNCHANGED <<modeVars, rxVars, txVars>>

\* The scoped lock is destroyed on return and on stack unwinding alike; the
\* caller is left with the result or the exception.
Unlock(t) ==
    /\ pc[t] = "exit"
    /\ _mutex' = IF _mutex = t THEN Free ELSE _mutex
    /\ pc' = [pc EXCEPT ![t] = "done"]
    /\ local' = [local EXCEPT ![t] = [NoCall EXCEPT !.ret = local[t].ret]]
    /\ UNCHANGED <<_enableEvents, _enableFDEvents, _filter, _thread,
                   kernelFilter, fdFrames, dtor, fold>>
    /\ UNCHANGED <<modeVars, rxVars, txVars>>

\* The result (or the exception) has reached the caller.
Return(t) ==
    /\ pc[t] = "done"
    /\ pc' = [pc EXCEPT ![t] = "idle"]
    /\ local' = [local EXCEPT ![t] = NoCall]
    /\ UNCHANGED <<_mutex, _enableEvents, _enableFDEvents, _filter, _thread,
                   kernelFilter, fdFrames, dtor, fold>>
    /\ UNCHANGED <<modeVars, rxVars, txVars>>


\* ---------------------------------------------- enableEvents / reader ----
\* Variant: the 1 -> 0 edge returns without _thread.join().
EnableEventsNoJoin(t) ==
    /\ pc[t] = "body"
    /\ local[t].op = "enableEvents"
    /\ _enableEvents' = CountAfter(_enableEvents, local[t].enable)
    /\ fold' = IF local[t].enable THEN fold + 1
               ELSE IF fold > 0 THEN fold - 1 ELSE fold
    /\ IF local[t].enable /\ _enableEvents = 0
       THEN \E started \in BOOLEAN :
               /\ started => _thread \notin Running
               /\ _thread' = IF started THEN "check" ELSE _thread
               /\ local' = [local EXCEPT ![t].ret =
                               IF started THEN "void" ELSE "SystemException"]
               /\ pc' = [pc EXCEPT ![t] = "exit"]
       ELSE /\ _thread' = _thread
            /\ local' = [local EXCEPT ![t].ret = "void"]
            /\ pc' = [pc EXCEPT ![t] = "exit"]
    /\ UNCHANGED <<_mutex, _enableFDEvents, _filter, kernelFilter, fdFrames, dtor>>
    /\ UNCHANGED <<modeVars, rxVars, txVars>>

\* Body of enableEvents under the mutex: the counter update and, on the 0 -> 1
\* edge, _thread.start(*this).  Poco::Thread::start throws SystemException
\* when the thread cannot be created or is still running; the counter has
\* been incremented by then.  On the 1 -> 0 edge the caller goes on to join.
EnableEvents(t) ==
    /\ pc[t] = "body"
    /\ local[t].op = "enableEvents"
    /\ _enableEvents' = CountAfter(_enableEvents, local[t].enable)
    /\ fold' = IF local[t].enable THEN fold + 1
               ELSE IF fold > 0 THEN fold - 1 ELSE fold
    /\ IF local[t].enable /\ _enableEvents = 0
       THEN \E started \in BOOLEAN :
               /\ started => _thread \notin Running
               /\ _thread' = IF started THEN "check" ELSE _thread
               /\ local' = [local EXCEPT ![t].ret =
                               IF started THEN "void" ELSE "SystemException"]
               /\ pc' = [pc EXCEPT ![t] = "exit"]
       ELSE /\ _thread' = _thread
            /\ local' = [local EXCEPT ![t].ret = "void"]
            /\ pc' = [pc EXCEPT ![t] =
                        IF ~local[t].enable /\ _enableEvents > 0 /\ _enableEvents' = 0
                        THEN "join" ELSE "exit"]
    /\ UNCHANGED <<_mutex, _enableFDEvents, _filter, kernelFilter, fdFrames, dtor>>
    /\ UNCHANGED <<modeVars, rxVars, txVars>>

\* _thread.join() inside enableEvents(false): returns once run() has returned
\* (at once if the thread was never started).  The scoped lock is still held.
JoinInEnableEvents(t) ==
    /\ pc[t] = "join"
    /\ _thread \notin Running
    /\ _thread' = "none"
    /\ pc' = [pc EXCEPT ![t] = "exit"]
    /\ UNCHANGED <<_mutex, _enableEvents, _enableFDEvents, _filter,
                   kernelFilter, fdFrames, local, dtor, fold>>
    /\ UNCHANGED <<modeVars, rxVars, txVars>>

\* eventsEnabled() called by a caller thread: _enableEvents > 0 under the mutex.
EventsEnabled(t) ==
    /\ pc[t] = "body"
    /\ local[t].op = "eventsEnabled"
    /\ local' = [local EXCEPT ![t].ret = IF _enableEvents > 0 THEN "true" ELSE "false"]
    /\ pc' = [pc EXCEPT ![t] = "exit"]
    /\ UNCHANGED <<_mutex, _enableEvents, _enableFDEvents, _filter, _thread,
                   kernelFilter, fdFrames, dtor, fold>>
    /\ UNCHANGED <<modeVars, rxVars, txVars>>

\* run(): the loop condition calls eventsEnabled(), which takes the mutex.
WorkerCheck ==
    /\ _thread = "check"
    /\ _mutex = Free
    /\ _mutex' = Worker
    /\ _thread' = "locked"
    /\ UNCHANGED <<_enableEvents, _enableFDEvents, _filter, kernelFilter,
                   fdFrames, pc, local, dtor, fold>>
    /\ UNCHANGED <<modeVars, rxVars, txVars>>

\* Variant: the loop keeps the mutex while it goes on to poll.
WorkerDecideKeepsLock ==
    /\ _thread = "locked"
    /\ _mutex' = IF _enableEvents > 0 THEN Worker ELSE Free
    /\ _thread' = IF _enableEvents > 0 THEN "poll" ELSE "exited"
    /\ UNCHANGED <<_enableEvents, _enableFDEvents, _filter, kernelFilter,
                   fdFrames, pc, local, dtor, fold>>
    /\ UNCHANGED <<modeVars, rxVars, txVars>>

\* run(): eventsEnabled() returns and releases the mutex; the loop goes on
\* to poll when the counter is positive and run() returns otherwise.
WorkerDecide ==
    /\ _thread = "locked"
    /\ _mutex' = Free
    /\ _thread' = IF _enableEvents > 0 THEN "poll" ELSE "exited"
    /\ UNCHANGED <<_enableEvents, _enableFDEvents, _filter, kernelFilter,
                   fdFrames, pc, local, dtor, fold>>
    /\ UNCHANGED <<modeVars, rxVars, txVars>>

\* Identifier words are sets of bit positions (bit 31 does not fit the
\* 32-bit signed integers of TLC).
CAN_EFF_FLAG == {31}
CAN_RTR_FLAG == {30}
CAN_EFF_MASK == 0 .. 28
CAN_MTU == 16
CANFD_MTU == 72

\* Buffers that receiveBytes can return: n is the byte count, can_id, len
\* and data the fields of the struct the bytes were read into.
RxBuffers ==
    { [n |-> CAN_MTU,   can_id |-> {0, 8} \cup CAN_EFF_FLAG, len |-> 2, data |-> <<17, 34>>],
      [n |-> CANFD_MTU, can_id |-> {1},                      len |-> 12,
                        data |-> <<1, 2, 3, 4, 5, 6, 7, 8, 9, 10, 11, 12>>],
      [n |-> 8,         can_id |-> {0},                      len |-> 0, data |-> <<>>] }

\* Variant: the id keeps the flag bits of can_id.
DecodeFrameUnmasked(kind, buf) ==
    [kind    |-> kind,
     id      |-> buf.can_id,
     flags   |-> (IF buf.can_id \cap CAN_EFF_FLAG # {} THEN {"IDE"} ELSE {})
                 \cup (IF buf.can_id \cap CAN_RTR_FLAG # {} THEN {"RTR"} ELSE {}),
     len     |-> buf.len,
     payload |-> SubSeq(buf.data, 1, buf.len)]

\* The frame object built from a buffer: flags from the EFF and RTR bits,
\* id = can_id & CAN_EFF_MASK, len bytes of data.
DecodeFrame(kind, buf) ==
    [kind    |-> kind,
     id      |-> buf.can_id \cap CAN_EFF_MASK,
     flags   |-> (IF buf.can_id \cap CAN_EFF_FLAG # {} THEN {"IDE"} ELSE {})
                 \cup (IF buf.can_id \cap CAN_RTR_FLAG # {} THEN {"RTR"} ELSE {}),
     len     |-> buf.len,
     payload |-> SubSeq(buf.data, 1, buf.len)]

\* Variant: every buffer that holds at least a classic frame is notified
\* as a classic frame.
DispatchAtLeastMTU(buf) ==
    IF buf.n >= CAN_MTU
    THEN <<[event |-> "frameReceived", frame |-> DecodeFrame("classic", buf)]>>
    ELSE <<>>

\* The notifications the loop body emits for one received buffer
\* (CAN_RAW_FD_FRAMES build): dispatch on the byte count.
Dispatch(buf) ==
    IF buf.n = CAN_MTU
    THEN <<[event |-> "frameReceived", frame |-> DecodeFrame("classic", buf)]>>
    ELSE IF buf.n = CANFD_MTU
    THEN <<[event |-> "sdFrameReceived", frame |-> DecodeFrame("fd", buf)]>>
    ELSE <<>>

\* What a subscriber's handler does with a notification.
HandlerOutcomes == {"returns", "PocoException", "otherException"}

\* run(): one loop body.  poll times out; or poll or receiveBytes throws a
\* Poco::Exception; or a buffer is received and dispatched, and a handler
\* returns or throws.  A Poco::Exception is caught and logged and the loop
\* returns to its condition; any other exception leaves run() and ends the
\* thread.
WorkerPoll ==
    /\ _thread = "poll"
    /\ \/ /\ _thread' = "check"
          /\ UNCHANGED rxVars
       \/ /\ _thread' = "check"
          /\ logged' = logged + 1
          /\ UNCHANGED <<delivered, notified>>
       \/ \E buf \in RxBuffers, h \in HandlerOutcomes :
             /\ Dispatch(buf) = <<>> => h = "returns"
             /\ delivered' = Append(delivered, buf)
             /\ notified' = notified \o Dispatch(buf)
             /\ logged' = IF h = "PocoException" THEN logged + 1 ELSE logged
             /\ _thread' = IF h = "otherException" THEN "exited" ELSE "check"
    /\ Len(delivered') + logged' <= MaxFrames
    /\ UNCHANGED <<_mutex, _enableEvents, _enableFDEvents, _filter, kernelFilter,
                   fdFrames, pc, local, dtor, fold>>
    /\ UNCHANGED <<modeVars, txVars>>

\* --------------------------------------------------------- destructor ----
\* The owner destroys the endpoint; no member call is in progress or follows.
DtorBegin ==
    /\ dtor = "alive"
    /\ \A t \in Threads : pc[t] = "idle"
    /\ dtor' = "lock"
    /\ UNCHANGED <<_mutex, _enableEvents, _enableFDEvents, _filter, _thread,
                   kernelFilter, fdFrames, pc, local, fold>>
    /\ UNCHANGED <<modeVars, rxVars, txVars>>

\* Poco::ScopedLockWithUnlock<Poco::FastMutex> lock(_mutex).
DtorLock ==
    /\ dtor = "lock"
    /\ _mutex = Free
    /\ _mutex' = Owner
    /\ dtor' = "body"
    /\ UNCHANGED <<_enableEvents, _enableFDEvents, _filter, _thread,
                   kernelFilter, fdFrames, pc, local, fold>>
    /\ UNCHANGED <<modeVars, rxVars, txVars>>

\* Variant: the destructor goes on to join without lock.unlock().
DtorBodyKeepsLock ==
    /\ dtor = "body"
    /\ IF _enableEvents # 0
       THEN /\ _enableEvents' = 0
            /\ _mutex' = _mutex
            /\ dtor' = "join"
       ELSE /\ _enableEvents' = _enableEvents
            /\ _mutex' = Free
            /\ dtor' = "destroyed"
    /\ UNCHANGED <<_enableFDEvents, _filter, _thread, kernelFilter, fdFrames,
                   pc, local, fold>>
    /\ UNCHANGED <<modeVars, rxVars, txVars>>

\* if (_enableEvents) { _enableEvents = 0; lock.unlock(); ... } -- otherwise
\* the scoped lock is released at the end of the destructor.
DtorBody ==
    /\ dtor = "body"
    /\ IF _enableEvents # 0
       THEN /\ _enableEvents' = 0
            /\ _mutex' = Free
            /\ dtor' = "join"
       ELSE /\ _enableEvents' = _enableEvents
            /\ _mutex' = Free
            /\ dtor' = "destroyed"
    /\ UNCHANGED <<_enableFDEvents, _filter, _thread, kernelFilter, fdFrames,
                   pc, local, fold>>
    /\ UNCHANGED <<modeVars, rxVars, txVars>>

\* _thread.join() in the destructor, then the end of the scope of the lock
\* (which unlocks only if lock.unlock() has not been called).
DtorJoin ==
    /\ dtor = "join"
    /\ _thread \notin Running
    /\ _thread' = "none"
    /\ _mutex' = IF _mutex = Owner THEN Free ELSE _mutex
    /\ dtor' = "destroyed"
    /\ UNCHANGED <<_enableEvents, _enableFDEvents, _filter, kernelFilter,
                   fdFrames, pc, local, fold>>
    /\ UNCHANGED <<modeVars, rxVars, txVars>>


\* ----------------------------------------------------- enableFDEvents ----
\* Variant: every enabling call writes the socket option.
EnableFDEventsAlwaysSets(t) ==
    /\ pc[t] = "body"
    /\ local[t].op = "enableFDEvents"
    /\ _enableFDEvents' = CountAfter(_enableFDEvents, local[t].enable)
    /\ IF local[t].enable
       THEN \E ok \in BOOLEAN :
               /\ fdFrames' = IF ok THEN 1 ELSE fdFrames
               /\ local' = [local EXCEPT ![t].ret = IF ok THEN "void" ELSE "IOError"]
       ELSE IF ~local[t].enable /\ _enableFDEvents > 0 /\ _enableFDEvents' = 0
       THEN \E ok \in BOOLEAN :
               /\ fdFrames' = IF ok THEN 0 ELSE fdFrames
               /\ local' = [local EXCEPT ![t].ret = IF ok THEN "void" ELSE "IOError"]
       ELSE /\ fdFrames' = fdFrames
            /\ local' = [local EXCEPT ![t].ret = "void"]
    /\ pc' = [pc EXCEPT ![t] = "exit"]
    /\ UNCHANGED <<_mutex, _enableEvents, _filter, _thread, kernelFilter, dtor, fold>>
    /\ UNCHANGED <<modeVars, rxVars, txVars>>

\* Body of enableFDEvents (CAN_RAW_FD_FRAMES build) under the mutex.  The
\* counter is updated first; on an edge _socket.setOption writes the socket
\* option, and throws when the host rejects the write.
EnableFDEvents(t) ==
    /\ pc[t] = "body"
    /\ local[t].op = "enableFDEvents"
    /\ _enableFDEvents' = CountAfter(_enableFDEvents, local[t].enable)
    /\ IF local[t].enable /\ _enableFDEvents = 0
       THEN \E ok \in BOOLEAN :
               /\ fdFrames' = IF ok THEN 1 ELSE fdFrames
               /\ local' = [local EXCEPT ![t].ret = IF ok THEN "void" ELSE "IOError"]
       ELSE IF ~local[t].enable /\ _enableFDEvents > 0 /\ _enableFDEvents' = 0
       THEN \E ok \in BOOLEAN :
               /\ fdFrames' = IF ok THEN 0 ELSE fdFrames
               /\ local' = [local EXCEPT ![t].ret = IF ok THEN "void" ELSE "IOError"]
       ELSE /\ fdFrames' = fdFrames
            /\ local' = [local EXCEPT ![t].ret = "void"]
    /\ pc' = [pc EXCEPT ![t] = "exit"]
    /\ UNCHANGED <<_mutex, _enableEvents, _filter, _thread, kernelFilter, dtor, fold>>
    /\ UNCHANGED <<modeVars, rxVars, txVars>>

\* fdEventsEnabled(): _enableFDEvents > 0 under the mutex.
FdEventsEnabled(t) ==
    /\ pc[t] = "body"
    /\ local[t].op = "fdEventsEnabled"
    /\ local' = [local EXCEPT ![t].ret = IF _enableFDEvents > 0 THEN "true" ELSE "false"]
    /\ pc' = [pc EXCEPT ![t] = "exit"]
    /\ UNCHANGED <<_mutex, _enableEvents, _enableFDEvents, _filter, _thread,
                   kernelFilter, fdFrames, dtor, fold>>
    /\ UNCHANGED <<modeVars, rxVars, txVars>>

\* ------------------------------------------------------------ filters ----
\* setsockopt(..., CAN_RAW_FILTER, &fvec[0], ...): the array replaces the
\* installed set as a whole, or the call returns -1 and installs nothing.
setsockopt(installed, fvec, ok) == IF ok THEN fvec ELSE installed

\* Variant: setFilter puts the previous list back when applyFilter throws.
SetFilterRestoring(t) ==
    /\ pc[t] = "body"
    /\ local[t].op = "setFilter"
    /\ \E list \in FilterLists, ok \in BOOLEAN :
          /\ _filter' = IF ok THEN list ELSE _filter
          /\ kernelFilter' = setsockopt(kernelFilter, applyFilter(list), ok)
          /\ local' = [local EXCEPT ![t].arg = list,
                                    ![t].ret = IF ok THEN "void" ELSE "IOError"]
    /\ pc' = [pc EXCEPT ![t] = "exit"]
    /\ UNCHANGED <<_mutex, _enableEvents, _enableFDEvents, _thread, fdFrames, dtor, fold>>
    /\ UNCHANGED <<modeVars, rxVars, txVars>>

\* setFilter: _filter = filter; applyFilter().
SetFilter(t) ==
    /\ pc[t] = "body"
    /\ local[t].op = "setFilter"
    /\ \E list \in FilterLists, ok \in BOOLEAN :
          /\ _filter' = list
          /\ kernelFilter' = setsockopt(kernelFilter, applyFilter(_filter'), ok)
          /\ local' = [local EXCEPT ![t].arg = list,
                                    ![t].ret = IF ok THEN "void" ELSE "IOError"]
    /\ pc' = [pc EXCEPT ![t] = "exit"]
    /\ UNCHANGED <<_mutex, _enableEvents, _enableFDEvents, _thread, fdFrames, dtor, fold>>
    /\ UNCHANGED <<modeVars, rxVars, txVars>>

\* getFilter: a copy of _filter.
GetFilter(t) ==
    /\ pc[t] = "body"
    /\ local[t].op = "getFilter"
    /\ local' = [local EXCEPT ![t].out = _filter, ![t].ret = "void"]
    /\ pc' = [pc EXCEPT ![t] = "exit"]
    /\ UNCHANGED <<_mutex, _enableEvents, _enableFDEvents, _filter, _thread,
                   kernelFilter, fdFrames, dtor, fold>>
    /\ UNCHANGED <<modeVars, rxVars, txVars>>

\* addFilter: return false at the first equal element; otherwise push_back,
\* applyFilter(), return true.
AddFilter(t) ==
    /\ pc[t] = "body"
    /\ local[t].op = "addFilter"
    /\ \E f \in Filters, ok \in BOOLEAN :
          IF FindFilter(_filter, f) # 0
          THEN /\ ok
               /\ UNCHANGED <<_filter, kernelFilter>>
               /\ local' = [local EXCEPT ![t].arg = <<f>>, ![t].ret = "false"]
          ELSE /\ _filter' = Append(_filter, f)
               /\ kernelFilter' = setsockopt(kernelFilter, applyFilter(_filter'), ok)
               /\ local' = [local EXCEPT ![t].arg = <<f>>,
                                         ![t].ret = IF ok THEN "true" ELSE "IOError"]
    /\ pc' = [pc EXCEPT ![t] = "exit"]
    /\ UNCHANGED <<_mutex, _enableEvents, _enableFDEvents, _thread, fdFrames, dtor, fold>>
    /\ UNCHANGED <<modeVars, rxVars, txVars>>

\* removeFilter: erase the first equal element, applyFilter(), return true;
\* return false when the loop finds none.
RemoveFilter(t) ==
    /\ pc[t] = "body"
    /\ local[t].op = "removeFilter"
    /\ \E f \in Filters, ok \in BOOLEAN :
          IF FindFilter(_filter, f) = 0
          THEN /\ ok
               /\ UNCHANGED <<_filter, kernelFilter>>
               /\ local' = [local EXCEPT ![t].arg = <<f>>, ![t].ret = "false"]
          ELSE /\ _filter' = Erase(_filter, FindFilter(_filter, f))
               /\ kernelFilter' = setsockopt(kernelFilter, applyFilter(_filter'), ok)
               /\ local' = [local EXCEPT ![t].arg = <<f>>,
                                         ![t].ret = IF ok THEN "true" ELSE "IOError"]
    /\ pc' = [pc EXCEPT ![t] = "exit"]
    /\ UNCHANGED <<_mutex, _enableEvents, _enableFDEvents, _thread, fdFrames, dtor, fold>>
    /\ UNCHANGED <<modeVars, rxVars, txVars>>

\* ------------------------------------- setFilterMode / getFilterMode ----
ModeOps == {"setFilterMode", "getFilterMode"}
FilterModes == {"OR", "AND"}

\* A caller thread enters setFilterMode(mode) or getFilterMode(); neither
\* takes _mutex.
CallMode(t) ==
    /\ dtor = "alive"
    /\ pc[t] = "idle"
    /\ \E op \in ModeOps, mode \in FilterModes :
          /\ op = "getFilterMode" => mode = "OR"
          /\ local' = [local EXCEPT ![t] =
                          [NoCall EXCEPT !.op = op,
                                         !.arg = IF op = "setFilterMode" THEN <<mode>> ELSE <<>>]]
          /\ pc' = [pc EXCEPT ![t] = IF op = "setFilterMode" THEN "option" ELSE "read"]
    /\ UNCHANGED <<_mutex, _enableEvents, _enableFDEvents, _filter, _thread,
                   kernelFilter, fdFrames, dtor, fold, modeVars, rxVars, txVars>>

\* setFilterMode: _socket.setOption(SOL_CAN_RAW, CAN_RAW_JOIN_FILTERS, 1 or 0),
\* which throws when the host rejects the write.
SetJoinFilters(t) ==
    /\ pc[t] = "option"
    /\ \E ok \in BOOLEAN :
          IF ok
          THEN /\ joinFilters' = IF local[t].arg[1] = "AND" THEN 1 ELSE 0
               /\ pc' = [pc EXCEPT ![t] = "store"]
               /\ local' = local
          ELSE /\ joinFilters' = joinFilters
               /\ pc' = [pc EXCEPT ![t] = "done"]
               /\ local' = [local EXCEPT ![t] = [NoCall EXCEPT !.ret = "IOError"]]
    /\ UNCHANGED <<_mutex, _enableEvents, _enableFDEvents, _filter, _thread,
                   kernelFilter, fdFrames, dtor, fold, _filterMode, rxVars, txVars>>

\* setFilterMode: _filterMode = mode.
StoreFilterMode(t) ==
    /\ pc[t] = "store"
    /\ _filterMode' = local[t].arg[1]
    /\ pc' = [pc EXCEPT ![t] = "done"]
    /\ local' = [local EXCEPT ![t] = [NoCall EXCEPT !.ret = "void"]]
    /\ UNCHANGED <<_mutex, _enableEvents, _enableFDEvents, _filter, _thread,
                   kernelFilter, fdFrames, dtor, fold, joinFilters, rxVars, txVars>>

\* getFilterMode: return _filterMode.
GetFilterMode(t) ==
    /\ pc[t] = "read"
    /\ pc' = [pc EXCEPT ![t] = "done"]
    /\ local' = [local EXCEPT ![t] = [NoCall EXCEPT !.ret = _filterMode]]
    /\ UNCHANGED <<_mutex, _enableEvents, _enableFDEvents, _filter, _thread,
                   kernelFilter, fdFrames, dtor, fold, modeVars, rxVars, txVars>>

\* ------------------------------------------- sendFrame / sendFDFrame ----
\* Frames handed to the send operations: id (a 32-bit word, as a set of bit
\* positions), flags, dlc or length, payload bytes.
TxIds == { {0, 8}, 0 .. 10, {0, 20, 28}, {0, 30}, {0, 31} }
TxFlags == SUBSET {"IDE", "RTR"}
Bytes(n) == [i \in 1 .. n |-> i]

ClassicFrames ==
    { [kind |-> "classic", id |-> i, flags |-> f, len |-> lp[1], payload |-> lp[2]] :
        i \in TxIds, f \in TxFlags,
        lp \in { <<0, <<>>>>, <<2, <<17, 34>>>>, <<8, Bytes(8)>>,
                 <<9, Bytes(9)>>, <<2, <<17>>>>, <<1, <<17, 34>>>> } }

FDFrames ==
    { [kind |-> "fd", id |-> i, flags |-> f, len |-> lp[1], payload |-> lp[2]] :
        i \in TxIds, f \in TxFlags,
        lp \in { <<0, <<>>>>, <<12, Bytes(12)>>, <<64, Bytes(64)>>,
                 <<9, Bytes(9)>>, <<65, Bytes(65)>>, <<12, <<17>>>> } }

\* sizeof(can_frame.data), sizeof(canfd_frame.data).
DataSize(kind) == IF kind = "classic" THEN 8 ELSE 64

\* Values of the bytes of scFrame.data that memcpy does not set, and of the
\* bytes it reads past the end of a payload shorter than the length.
StaleBytes == {0, 170}

\* scFrame.can_id = frame.id(); |= CAN_EFF_FLAG if IDE; |= CAN_RTR_FLAG if RTR.
EncodeId(frame) ==
    frame.id
        \cup (IF "IDE" \in frame.flags THEN CAN_EFF_FLAG ELSE {})
        \cup (IF "RTR" \in frame.flags THEN CAN_RTR_FLAG ELSE {})

\* The buffer handed to sendBytes: sizeof(scFrame) bytes holding can_id, the
\* length and data, of which memcpy has set the first length bytes.
EncodeFrame(frame, stale) ==
    [n      |-> IF frame.kind = "classic" THEN CAN_MTU ELSE CANFD_MTU,
     can_id |-> EncodeId(frame),
     len    |-> frame.len,
     data   |-> [i \in 1 .. DataSize(frame.kind) |->
                   IF i <= frame.len /\ i <= Len(frame.payload)
                   THEN frame.payload[i] ELSE stale]]

\* sendFrame(frame).  No field of the frame is checked.  A dlc above
\* sizeof(scFrame.data) makes memcpy write past scFrame: the call goes on
\* to sendBytes or the process is aborted.  sendBytes writes the buffer or
\* throws.
SendFrame ==
    /\ dtor = "alive"
    /\ txRet = "none"
    /\ \E frame \in ClassicFrames, stale \in StaleBytes, ok \in BOOLEAN, aborted \in BOOLEAN :
          /\ aborted => (frame.len > DataSize(frame.kind) /\ ~ok)
          /\ txFrame' = frame
          /\ txWire' = IF ok THEN <<EncodeFrame(frame, stale)>> ELSE <<>>
          /\ txRet' = IF ok THEN "void" ELSE IF aborted THEN "abort" ELSE "IOError"
    /\ UNCHANGED <<_mutex, _enableEvents, _enableFDEvents, _filter, _thread,
                   kernelFilter, fdFrames, pc, local, dtor, fold, modeVars, rxVars>>

\* sendFDFrame(frame), CAN_RAW_FD_FRAMES build: the same steps with a
\* canfd_frame, whose data holds 64 bytes.
SendFDFrame ==
    /\ dtor = "alive"
    /\ txRet = "none"
    /\ \E frame \in FDFrames, stale \in StaleBytes, ok \in BOOLEAN, aborted \in BOOLEAN :
          /\ aborted => (frame.len > DataSize(frame.kind) /\ ~ok)
          /\ txFrame' = frame
          /\ txWire' = IF ok THEN <<EncodeFrame(frame, stale)>> ELSE <<>>
          /\ txRet' = IF ok THEN "void" ELSE IF aborted THEN "abort" ELSE "IOError"
    /\ UNCHANGED <<_mutex, _enableEvents, _enableFDEvents, _filter, _thread,
                   kernelFilter, fdFrames, pc, local, dtor, fold, modeVars, rxVars>>

\* The send call returns to its caller (or its exception is handled).
SendReturn ==
    /\ txRet \notin {"none", "abort"}
    /\ txFrame' = NoFrame
    /\ txWire' = <<>>
    /\ txRet' = "none"
    /\ UNCHANGED <<_mutex, _enableEvents, _enableFDEvents, _filter, _thread,
                   kernelFilter, fdFrames, pc, local, dtor, fold, modeVars, rxVars>>

\* ----------------------------------------------------- specifications ----
\* The endpoint keeps three groups of state that no operation mixes: the
\* classic enable counter with the reader thread, the FD enable counter with
\* its socket option, and the filter list with the installed filter array.
\* The groups meet only in _mutex.  Each specification below runs every
\* thread that contends for the mutex and the operations of one group.

\* Steps every operation that locks the mutex goes through.
CallSteps ==
    \/ \E t \in Threads : Lock(t)
    \/ \E t \in Threads : Unlock(t)
    \/ \E t \in Threads : Return(t)

\* enableEvents, eventsEnabled, the reader thread and the destructor.
NextEvents ==
    \/ \E t \in Threads : Call(t, EventOps)
    \/ CallSteps
    \/ \E t \in Threads : EnableEvents(t)
    \/ \E t \in Threads : JoinInEnableEvents(t)
    \/ \E t \in Threads : EventsEnabled(t)
    \/ WorkerCheck
    \/ WorkerDecide
    \/ WorkerPoll
    \/ DtorBegin
    \/ DtorLock
    \/ DtorBody
    \/ DtorJoin

SpecEvents == Init /\ [][NextEvents]_vars

\* enableFDEvents and fdEventsEnabled.
NextFD ==
    \/ \E t \in Threads : Call(t, FDOps)
    \/ CallSteps
    \/ \E t \in Threads : EnableFDEvents(t)
    \/ \E t \in Threads : FdEventsEnabled(t)

SpecFD == Init /\ [][NextFD]_vars

\* setFilter, getFilter, addFilter and removeFilter: one thread issues any
\* of them, the other reads the list back with getFilter.
NextFilters ==
    \/ Call(Mutator, FilterOps)
    \/ Call(Observer, {"getFilter"})
    \/ CallSteps
    \/ \E t \in Threads : SetFilter(t)
    \/ \E t \in Threads : GetFilter(t)
    \/ \E t \in Threads : AddFilter(t)
    \/ \E t \in Threads : RemoveFilter(t)

SpecFilters == Init /\ [][NextFilters]_vars


\* setFilterMode and getFilterMode.
NextMode ==
    \/ \E t \in Threads : CallMode(t)
    \/ \E t \in Threads : SetJoinFilters(t)
    \/ \E t \in Threads : StoreFilterMode(t)
    \/ \E t \in Threads : GetFilterMode(t)
    \/ \E t \in Threads : Return(t)

SpecMode == Init /\ [][NextMode]_vars

\* sendFrame and sendFDFrame.
NextSend ==
    \/ SendFrame
    \/ SendFDFrame
    \/ SendReturn

SpecSend == Init /\ [][NextSend]_vars

\* Fair scheduling of the reader thread and of the destroying thread: a
\* thread that can run does run, poll returns within CAN_POLL_TIMEOUT, and a
\* thread that finds the mutex free again and again acquires it.
FairEvents ==
    /\ SpecEvents
    /\ SF_vars(WorkerCheck)
    /\ WF_vars(WorkerDecide)
    /\ WF_vars(WorkerPoll)
    /\ SF_vars(DtorLock)
    /\ WF_vars(DtorBody)
    /\ WF_vars(DtorJoin)

\* ============================================================= claims ====

\* C1: enableEvents(false) that takes the counter from 1 to 0 joins the
\* worker and returns; no state is reachable in which the caller waits for
\* the worker (in join) while the worker waits for the caller (for the mutex
\* the caller holds).
C1_NoMutualWait ==
    ~ \E t \in Threads :
          /\ pc[t] = "join"
          /\ _mutex = t
          /\ _thread = "check"

\* C2: in every reachable state the reader worker is running if and only if
\* classicEnableCount > 0.
C2_ReaderIffCount ==
    ReaderRunning <=> (_enableEvents > 0)

\* C3: the counter is never negative; while the endpoint lives it equals the
\* fold of the enableEvents calls (+1 for true, -1 for false at a positive
\* count, unchanged for false at 0); enableEvents(false) at 0 neither starts
\* nor joins anything; eventsEnabled() returns true exactly when the fold is
\* positive.
C3_CountIsFold ==
    /\ [](_enableEvents >= 0)
    /\ [](dtor \in {"alive", "lock", "body"} => _enableEvents = fold)
    /\ [](\A t \in Threads :
             (pc[t] = "exit" /\ local[t].op = "eventsEnabled")
                => (local[t].ret = "true" <=> fold > 0))
    /\ [][\A t \in Threads :
             (/\ pc[t] = "body"
              /\ local[t].op = "enableEvents"
              /\ ~local[t].enable
              /\ fold = 0
              /\ pc'[t] # "body")
                => (/\ pc'[t] = "exit"
                    /\ _thread' = _thread
                    /\ _enableEvents' = 0
                    /\ fold' = 0)]_vars

\* C3 witness: with the fold at 1 after it had reached 2 (true, true, false)
\* eventsEnabled() is about to return true while the reader runs.
C3_Witness ==
    \E t, u \in Threads :
        /\ pc[t] = "exit" /\ local[t].op = "eventsEnabled" /\ local[t].ret = "true"
        /\ pc[u] = "done" /\ local[u].ret = "void"
        /\ fold = 1
        /\ ReaderRunning

\* C4: the destructor entered at a count >= 1 zeroes the counter while it
\* holds the mutex, no longer holds the mutex when it joins, and eventually
\* returns with the reader worker exited.
C4_DtorJoins ==
    /\ [][(dtor = "body" /\ _enableEvents >= 1 /\ dtor' # dtor)
             => (_mutex = Owner /\ _enableEvents' = 0 /\ dtor' = "join")]_vars
    /\ [](dtor = "join" => (_mutex # Owner /\ _enableEvents = 0))
    /\ ((dtor = "lock" /\ _enableEvents >= 1)
           ~> (dtor = "destroyed" /\ ~ReaderRunning /\ _mutex = Free))

\* C4 witness: the destructor, entered at a count of 2, is joining a reader
\* that is still running.
C4_Witness ==
    /\ dtor = "join"
    /\ ReaderRunning
    /\ fold >= 2

\* C5: in every reachable state the FD_FRAMES socket option is enabled if and
\* only if fdEnableCount > 0.
C5_FdOptionIffCount ==
    (fdFrames = 1) <=> (_enableFDEvents > 0)


\* Two filters are the same filter for insertion and removal: same id, same mask.
SameIdMask(f, g) == f.id = g.id /\ f.mask = g.mask

\* The filter-changing body step of operation op taken by thread t.
BodyStepOf(t, op) == pc[t] = "body" /\ local[t].op = op /\ pc'[t] = "exit"

\* C6: the list getFilter() returns never holds two entries equal by (id, mask).
C6_NoDuplicates ==
    \A t \in Threads :
        (pc[t] = "exit" /\ local[t].op = "getFilter")
            => \A i, j \in 1..Len(local[t].out) :
                  SameIdMask(local[t].out[i], local[t].out[j]) => i = j

\* C7: addFilter(f) returns false and changes neither the list nor the
\* installed set when an entry with f's (id, mask) is present, whatever the
\* invert flags; otherwise it appends f at the end, and true is what it returns.
C7_AddFilter ==
    [][\A t \in Threads :
          BodyStepOf(t, "addFilter") =>
             LET f == local'[t].arg[1]
                 present == \E i \in 1..Len(_filter) : SameIdMask(_filter[i], f)
             IN  IF present
                 THEN /\ local'[t].ret = "false"
                      /\ _filter' = _filter
                      /\ kernelFilter' = kernelFilter
                 ELSE /\ _filter' = _filter \o <<f>>
                      /\ local'[t].ret \in {"true", "IOError"}]_vars

\* C7 witness: addFilter has returned false for a filter whose (id, mask) is
\* in the list only with the opposite invert flag.
C7_Witness ==
    \E t \in Threads :
        /\ pc[t] = "exit" /\ local[t].op = "addFilter" /\ local[t].ret = "false"
        /\ \E i \in 1..Len(_filter) : SameIdMask(_filter[i], local[t].arg[1])
        /\ \A i \in 1..Len(_filter) :
              SameIdMask(_filter[i], local[t].arg[1])
                 => _filter[i].invert # local[t].arg[1].invert

\* C8: removeFilter(f) returns false exactly when no entry has f's (id, mask),
\* and then changes neither the list nor the installed set; otherwise it
\* removes the first such entry whatever its invert flag, keeps the order of
\* the others, and true is what it returns.
C8_RemoveFilter ==
    [][\A t \in Threads :
          BodyStepOf(t, "removeFilter") =>
             LET f == local'[t].arg[1]
                 hits == {i \in 1..Len(_filter) : SameIdMask(_filter[i], f)}
             IN  IF hits = {}
                 THEN /\ local'[t].ret = "false"
                      /\ _filter' = _filter
                      /\ kernelFilter' = kernelFilter
                 ELSE /\ local'[t].ret \in {"true", "IOError"}
                      /\ \E i \in hits :
                            /\ \A j \in hits : i <= j
                            /\ _filter' = SubSeq(_filter, 1, i - 1)
                                             \o SubSeq(_filter, i + 1, Len(_filter))]_vars

\* C8 witness: removeFilter has returned true and an entry with the same
\* (id, mask) and the opposite invert flag is still in the list.
C8_Witness ==
    \E t \in Threads :
        /\ pc[t] = "exit" /\ local[t].op = "removeFilter" /\ local[t].ret = "true"
        /\ \E i \in 1..Len(_filter) :
              /\ SameIdMask(_filter[i], local[t].arg[1])
              /\ _filter[i].invert # local[t].arg[1].invert

\* id | INV_FILTER_BIT, written with arithmetic on the one bit.
WithInvBit(id) ==
    IF (id \div CAN_INV_FILTER) % 2 = 1 THEN id ELSE id + CAN_INV_FILTER

\* C9: after a setFilter, addFilter or removeFilter that changed the list and
\* returned normally, the installed array is the list, entry by entry in the
\* same order, with can_id = id | INV_FILTER_BIT when invert is set, can_id =
\* id otherwise, and can_mask = mask.
C9_KernelIsList ==
    \A t \in Threads :
        (/\ pc[t] = "exit"
         /\ \/ local[t].op = "setFilter" /\ local[t].ret = "void"
            \/ local[t].op \in {"addFilter", "removeFilter"} /\ local[t].ret = "true")
            => /\ Len(kernelFilter) = Len(_filter)
               /\ \A i \in 1..Len(_filter) :
                     /\ kernelFilter[i].can_mask = _filter[i].mask
                     /\ kernelFilter[i].can_id =
                           IF _filter[i].invert THEN WithInvBit(_filter[i].id)
                           ELSE _filter[i].id

\* C9 witness: addFilter has returned true with, in the list, an inverted
\* filter whose id lacks the inversion bit and an inverted filter whose id
\* carries it.
C9_Witness ==
    \E t \in Threads :
        /\ pc[t] = "exit" /\ local[t].op = "addFilter" /\ local[t].ret = "true"
        /\ \E i, j \in 1..Len(_filter) :
              /\ _filter[i].invert /\ kernelFilter[i].can_id # _filter[i].id
              /\ _filter[j].invert /\ kernelFilter[j].can_id = _filter[j].id

\* C10: when the kernel rejects the array, setFilter/addFilter/removeFilter
\* fail with IOError; the caller has the error only after the mutex was
\* released; the list is the new one (which getFilter() returns) and the
\* installed set is the previous one.
C10_RejectedInstall ==
    /\ [](\A t \in Threads : (pc[t] = "done" /\ local[t].ret = "IOError") => _mutex # t)
    /\ [](\A t \in Threads :
             (pc[t] = "exit" /\ local[t].op = "getFilter") => local[t].out = _filter)
    /\ [][\A t \in Threads :
             (/\ pc[t] = "body"
              /\ local[t].op \in {"setFilter", "addFilter", "removeFilter"}
              /\ local'[t].ret = "IOError")
                => /\ kernelFilter' = kernelFilter
                   /\ pc'[t] = "exit" /\ _mutex' = t
                   /\ _filter' = CASE local[t].op = "setFilter" -> local'[t].arg
                                   [] local[t].op = "addFilter" -> Append(_filter, local'[t].arg[1])
                                   [] OTHER ->
                                        LET i == CHOOSE k \in 1..Len(_filter) :
                                                   /\ SameIdMask(_filter[k], local'[t].arg[1])
                                                   /\ \A j \in 1..(k - 1) :
                                                         ~SameIdMask(_filter[j], local'[t].arg[1])
                                        IN  SubSeq(_filter, 1, i - 1)
                                               \o SubSeq(_filter, i + 1, Len(_filter))]_vars

\* C10 witness: setFilter has failed with IOError on one thread, which no
\* longer holds the mutex; getFilter() on the other thread returns the new
\* list, which is not what the kernel has installed.
C10_Witness ==
    /\ pc[Mutator] = "done" /\ local[Mutator].ret = "IOError"
    /\ pc[Observer] = "exit" /\ local[Observer].op = "getFilter"
    /\ _mutex = Observer
    /\ Len(local[Observer].out) = 2
    /\ Len(kernelFilter) = 1


\* C11: a thread that is about to read or write filter, filterMode,
\* classicEnableCount or fdEnableCount (the body of an operation that locks,
\* the store of setFilterMode, the read of getFilterMode) holds the mutex, so
\* no two threads are at an access of the same field at the same time.
C11_AccessUnderMutex ==
    /\ \A t \in Threads : pc[t] \in {"body", "store", "read"} => _mutex = t
    /\ \A t, u \in Threads :
          ~(t # u /\ pc[t] = "store" /\ pc[u] \in {"store", "read"})

\* C12: whenever no setFilterMode call is in progress, JOIN_FILTERS is 1 if
\* and only if the stored mode (what getFilterMode() returns) is AND.
C12_JoinIffAnd ==
    (\A t \in Threads : pc[t] \notin {"option", "store"})
        => (joinFilters = 1 <=> _filterMode = "AND")


\* C13: the reader thread ends only because the enable counter dropped to
\* zero: an exception raised in an iteration never ends it.
C13_WorkerStopsOnlyAtZero ==
    _thread = "exited" => _enableEvents = 0

\* C18: the notifications are, in order, the buffers of CAN_MTU or
\* CANFD_MTU bytes among the buffers received: one frameReceived for each
\* buffer of CAN_MTU bytes, one sdFrameReceived for each buffer of CANFD_MTU
\* bytes, nothing for any other size, each carrying the contents of its
\* buffer.
FrameSized(buf) == buf.n \in {CAN_MTU, CANFD_MTU}

C18_NotificationsAreDeliveries ==
    LET sized == SelectSeq(delivered, FrameSized)
    IN  /\ Len(notified) = Len(sized)
        /\ \A i \in 1 .. Len(sized) :
              /\ notified[i].event =
                    (IF sized[i].n = CAN_MTU THEN "frameReceived" ELSE "sdFrameReceived")
              /\ notified[i].frame.kind = (IF sized[i].n = CAN_MTU THEN "classic" ELSE "fd")
              /\ notified[i].frame.id = sized[i].can_id \cap CAN_EFF_MASK
              /\ notified[i].frame.len = sized[i].len
              /\ notified[i].frame.payload = SubSeq(sized[i].data, 1, sized[i].len)

\* A classic and an FD buffer have been received and notified, in that order.
C18_Witness ==
    /\ Len(delivered) = 2
    /\ Len(notified) = 2
    /\ notified[1].event = "frameReceived"
    /\ notified[2].event = "sdFrameReceived"

\* C19: the reader thread holds the mutex exactly inside its eventsEnabled()
\* check, never while it polls, receives or notifies.
C19_WorkerLocksOnlyInCheck ==
    /\ (_mutex = Worker) <=> (_thread = "locked")
    /\ _thread = "poll" => _mutex # Worker

\* The reader is in its loop body while a caller is inside an operation,
\* holding the mutex.
C19_Witness ==
    /\ _thread = "poll"
    /\ \E t \in Threads : pc[t] = "body" /\ _mutex = t

\* C20: every enableEvents(true) that finds the counter at zero, and so
\* calls _thread.start, is made in a state where no reader thread is running
\* or waiting to be joined.
C20_StartOnlyWithoutWorker ==
    [][\A t \in Threads :
          (/\ pc[t] = "body"
           /\ local[t].op = "enableEvents"
           /\ local[t].enable
           /\ _enableEvents = 0
           /\ pc'[t] # "body")
          => _thread = "none"]_vars

\* A reader thread has just been started after an earlier reader thread had
\* received a frame, ended and been joined.
C20_Witness ==
    /\ _thread = "check"
    /\ _enableEvents = 1
    /\ Len(delivered) > 0
    /\ \E t \in Threads :
          /\ pc[t] = "exit"
          /\ local[t].op = "enableEvents"
          /\ local[t].enable
          /\ local[t].ret = "void"


\* C14 as stated: an enableFDEvents(true) call never raises, also when the
\* write of the FD_FRAMES socket option is rejected.
C14_NeverRaises ==
    \A t \in Threads :
        (pc[t] = "exit" /\ local[t].op = "enableFDEvents" /\ local[t].enable)
            => local[t].ret = "void"

\* C14 amended: an enableFDEvents(true) call (fdFramesSupported() is true in
\* this build) raises nothing but IOError, and raises it only when it found
\* the counter at zero and its write of the FD_FRAMES option was rejected,
\* which leaves the option as it was.
C14_RaisesOnlyRejectedWrite ==
    [][\A t \in Threads :
          (BodyStepOf(t, "enableFDEvents") /\ local[t].enable) =>
             /\ local'[t].ret \in {"void", "IOError"}
             /\ local'[t].ret = "IOError" =>
                   (_enableFDEvents = 0 /\ fdFrames' = fdFrames)
             /\ (_enableFDEvents # 0) => local'[t].ret = "void"]_vars

\* An enabling call that found the counter at zero has raised IOError; the
\* option, set by an earlier call, is as it was.
C14_Witness ==
    /\ _enableFDEvents = 1
    /\ fdFrames = 1
    /\ \E t \in Threads :
          /\ pc[t] = "exit"
          /\ local[t].op = "enableFDEvents"
          /\ local[t].enable
          /\ local[t].ret = "IOError"


\* Lengths of the data model: dlc of a classic frame, length of an FD frame.
ValidLengths(kind) ==
    IF kind = "classic" THEN 0 .. 8 ELSE (0 .. 8) \cup {12, 16, 20, 24, 32, 48, 64}

\* C15: sendFrame fails with InvalidArgument and writes nothing when
\* dlc > 8 or the payload length differs from dlc; otherwise it writes
\* exactly one buffer of CAN_MTU bytes (or fails with IOError when the
\* socket write fails).
C15_SendValidates ==
    (txRet # "none" /\ txFrame.kind = "classic") =>
        IF txFrame.len > 8 \/ Len(txFrame.payload) # txFrame.len
        THEN txRet = "InvalidArgument" /\ txWire = <<>>
        ELSE \/ txRet = "void" /\ Len(txWire) = 1 /\ txWire[1].n = CAN_MTU
             \/ txRet = "IOError" /\ txWire = <<>>

\* C16: the identifier field written by sendFrame and sendFDFrame is
\* (id & CAN_EFF_MASK) | (IDE ? CAN_EFF_FLAG : 0) | (RTR ? CAN_RTR_FLAG : 0).
C16_IdFieldMasked ==
    txWire # <<>> =>
        txWire[1].can_id =
            (txFrame.id \cap CAN_EFF_MASK)
                \cup (IF "IDE" \in txFrame.flags THEN CAN_EFF_FLAG ELSE {})
                \cup (IF "RTR" \in txFrame.flags THEN CAN_RTR_FLAG ELSE {})

\* A frame of the data model: id within 29 bits, length of its kind,
\* as many payload bytes as the length.
IsFrame(f) ==
    /\ f.id \subseteq CAN_EFF_MASK
    /\ f.len \in ValidLengths(f.kind)
    /\ Len(f.payload) = f.len

\* C17: the reader decodes the buffer that the send path wrote for a frame
\* F (classic with dlc in 0..8, FD with a length in {0..8, 12, 16, 20, 24,
\* 32, 48, 64}) into one notification of F's kind that carries F: same id,
\* same flags, same length, same payload bytes.
C17_RoundTrip ==
    (txWire # <<>> /\ IsFrame(txFrame)) =>
        Dispatch(txWire[1]) =
            <<[event |-> IF txFrame.kind = "classic" THEN "frameReceived"
                                                     ELSE "sdFrameReceived",
               frame |-> txFrame]>>

\* An extended remote FD frame of 12 bytes, with an id that uses bit 28,
\* has been written.
C17_Witness ==
    /\ txWire # <<>>
    /\ IsFrame(txFrame)
    /\ txFrame.kind = "fd"
    /\ txFrame.len = 12
    /\ txFrame.flags = {"IDE", "RTR"}
    /\ 28 \in txFrame.id

====
